---- MODULE Spec2Model ----
(***************************************************************************)
(* Model of edb/edgeql-parser/edgeql-parser-python/src/normalize.rs: the   *)
(* query normalizer (scan_vars, normalize, serialize_tokens, hash).        *)
(*                                                                         *)
(* Text is modelled as a sequence of one-character strings so that         *)
(* parsing, formatting, upper-casing and concatenation are computed.       *)
(* usize is modelled with USIZE_BITS bits.                                 *)
(***************************************************************************)
EXTENDS Integers, Sequences, FiniteSets, TLC

\* ------------------------------------------------------------------ bounds
\* longest enumerated token sequence
MaxLen == 3
\* most tokens delivered before the token source reports a failure
MaxErrLen == 2
\* width of the machine word holding parameter indices (usize)
USIZE_BITS == 3

USIZE_MAX == 2 ^ USIZE_BITS - 1

\* ------------------------------------------------------------- text helpers
Digits == <<"0", "1", "2", "3", "4", "5", "6", "7", "8", "9">>
LowerCase == <<"a", "b", "c", "d", "e", "f", "g", "h", "i", "j", "k", "l", "m",
               "n", "o", "p", "q", "r", "s", "t", "u", "v", "w", "x", "y", "z">>
UpperCase == <<"A", "B", "C", "D", "E", "F", "G", "H", "I", "J", "K", "L", "M",
               "N", "O", "P", "Q", "R", "S", "T", "U", "V", "W", "X", "Y", "Z">>

IsDigit(c) == \E d \in 1..10 : Digits[d] = c
DigitVal(c) == (CHOOSE d \in 1..10 : Digits[d] = c) - 1

\* char::to_ascii_uppercase / to_ascii_lowercase on one character
UpperChar(c) ==
    IF \E k \in 1..26 : LowerCase[k] = c
    THEN UpperCase[CHOOSE k \in 1..26 : LowerCase[k] = c]
    ELSE c
LowerChar(c) ==
    IF \E k \in 1..26 : UpperCase[k] = c
    THEN LowerCase[CHOOSE k \in 1..26 : UpperCase[k] = c]
    ELSE c

\* str::to_uppercase (the texts of the model are ASCII)
to_uppercase(text) == [k \in 1..Len(text) |-> UpperChar(text[k])]

\* str::eq_ignore_ascii_case
eq_ignore_ascii_case(a, b) ==
    /\ Len(a) = Len(b)
    /\ \A k \in 1..Len(a) : LowerChar(a[k]) = LowerChar(b[k])

\* format!("{}", n) for an unsigned integer: its decimal digits
RECURSIVE FormatUsize(_)
FormatUsize(n) ==
    IF n < 10 THEN <<Digits[n + 1]>>
    ELSE FormatUsize(n \div 10) \o <<Digits[(n % 10) + 1]>>

\* str::parse::<usize>(): ParseErr on an empty string, a non-digit, or a value
\* above USIZE_MAX; one leading "+" is accepted.
ParseErr == -1
RECURSIVE ParseDigits(_, _)
ParseDigits(text, acc) ==
    IF text = <<>> THEN acc
    ELSE IF ~IsDigit(Head(text)) THEN ParseErr
    ELSE LET v == acc * 10 + DigitVal(Head(text))
         IN IF v > USIZE_MAX THEN ParseErr ELSE ParseDigits(Tail(text), v)
ParseUsize(text) ==
    LET body == IF text # <<>> /\ Head(text) = "+" THEN Tail(text) ELSE text
    IN IF body = <<>> THEN ParseErr ELSE ParseDigits(body, 0)

\* --------------------------------------------------------------- the tokens
\* Option<Value>: the decoded literal of a token
NoValue == [tag |-> "None", repr |-> <<>>]
ValueOf(tag, repr) == [tag |-> tag, repr |-> repr]

SpanAt(i) == [start |-> i, end |-> i + 1]
NoSpan == [start |-> 0, end |-> 0]

Token(kind, text, span, value) ==
    [kind |-> kind, text |-> text, span |-> span, value |-> value]

\* Kind::* for which is_operator is true
OperatorKinds ==
    {"Assign", "SubAssign", "AddAssign", "Arrow", "Coalesce", "Namespace",
     "DoubleSplat", "BackwardLink", "FloorDiv", "Concat", "GreaterEq",
     "LessEq", "NotEq", "NotDistinctFrom", "DistinctFrom", "Comma",
     "OpenParen", "CloseParen", "OpenBracket", "CloseBracket", "OpenBrace",
     "CloseBrace", "Dot", "Semicolon", "Colon", "Add", "Sub", "Mul", "Div",
     "Modulo", "Pow", "Less", "Greater", "Eq", "Ampersand", "Pipe", "At"}
\* Kind::* for which is_operator is false
WordKinds ==
    {"DecimalConst", "FloatConst", "IntConst", "BigIntConst", "BinStr",
     "Argument", "Str", "BacktickName", "Keyword", "Ident", "Substitution"}

\* is_operator with Kind::OpenParen moved to the `false` group
is_operator_paren_word(token) == token.kind \in OperatorKinds \ {"OpenParen"}

is_operator(token) == token.kind \in OperatorKinds

\* serialize_tokens without the exception for Kind::Argument
RECURSIVE serialize_from_space_before_argument(_, _, _)
serialize_from_space_before_argument(tokens, buf, needs_space) ==
    IF tokens = <<>> THEN buf
    ELSE LET token == Head(tokens)
             sp == IF needs_space /\ ~is_operator(token)
                   THEN <<" ">> ELSE <<>>
         IN serialize_from_space_before_argument(
                Tail(tokens), buf \o sp \o token.text, ~is_operator(token))

\* serialize_tokens: needs_space is threaded through the loop
RECURSIVE serialize_from(_, _, _)
serialize_from(tokens, buf, needs_space) ==
    IF tokens = <<>> THEN buf
    ELSE LET token == Head(tokens)
             sp == IF needs_space /\ ~is_operator(token)
                      /\ token.kind # "Argument"
                   THEN <<" ">> ELSE <<>>
         IN serialize_from(Tail(tokens), buf \o sp \o token.text,
                           ~is_operator(token))
serialize_tokens(tokens) == serialize_from(tokens, <<>>, FALSE)

\* hash: BLAKE2b-512 of the text, kept as an uninterpreted function of it
hash(text) == [blake2b512 |-> text]

\* push_var giving the synthesized parameter token no span of its own
push_var_argument_without_span(res, module, typ, var, span) ==
    res \o << Token("OpenParen", <<"(">>, span, NoValue),
              Token("Less", <<"<">>, span, NoValue),
              Token("Ident", module, span, NoValue),
              Token("Namespace", <<":", ":">>, span, NoValue),
              Token("Ident", typ, span, ValueOf("String", typ)),
              Token("Greater", <<">">>, span, NoValue),
              Token("Argument", var, NoSpan, NoValue),
              Token("CloseParen", <<")">>, span, NoValue) >>

\* push_var: the eight tokens of (<module::typ>var), all with the same span
push_var(res, module, typ, var, span) ==
    res \o << Token("OpenParen", <<"(">>, span, NoValue),
              Token("Less", <<"<">>, span, NoValue),
              Token("Ident", module, span, NoValue),
              Token("Namespace", <<":", ":">>, span, NoValue),
              Token("Ident", typ, span, ValueOf("String", typ)),
              Token("Greater", <<">">>, span, NoValue),
              Token("Argument", var, span, NoValue),
              Token("CloseParen", <<")">>, span, NoValue) >>

\* scan_vars: the loop over the tokens, then the decision
RECURSIVE scan_loop(_, _, _)
scan_loop(tokens, max_visited, names) ==
    IF tokens = <<>> THEN [max_visited |-> max_visited, names |-> names]
    ELSE LET t == Head(tokens)
             v == ParseUsize(Tail(t.text))
         IN IF t.kind = "Argument"
            THEN IF v # ParseErr
                 THEN scan_loop(Tail(tokens),
                                IF max_visited = ParseErr \/ v > max_visited
                                THEN v ELSE max_visited,
                                names)
                 ELSE scan_loop(Tail(tokens), max_visited,
                                names \cup {t.text})
            ELSE scan_loop(Tail(tokens), max_visited, names)

\* Option<(bool, usize)>
ScanNone == [some |-> FALSE, named_args |-> FALSE, var_idx |-> 0]
ScanSome(named, n) == [some |-> TRUE, named_args |-> named, var_idx |-> n]

\* scan_vars with a wrapping add in place of checked_add
scan_vars_wrapping_add(tokens) ==
    LET s == scan_loop(tokens, ParseErr, {})
    IN IF s.names = {}
       THEN IF s.max_visited = ParseErr THEN ScanSome(FALSE, 0)
            ELSE ScanSome(FALSE, (s.max_visited + 1) % (2 ^ USIZE_BITS))
       ELSE IF s.max_visited # ParseErr THEN ScanNone
       ELSE ScanSome(TRUE, Cardinality(s.names))

\* scan_vars returning the highest index seen instead of the next free one
scan_vars_no_increment(tokens) ==
    LET s == scan_loop(tokens, ParseErr, {})
    IN IF s.names = {}
       THEN IF s.max_visited = ParseErr THEN ScanSome(FALSE, 0)
            ELSE IF s.max_visited + 1 > USIZE_MAX THEN ScanNone
            ELSE ScanSome(FALSE, s.max_visited)
       ELSE IF s.max_visited # ParseErr THEN ScanNone
       ELSE ScanSome(TRUE, Cardinality(s.names))

scan_vars(tokens) ==
    LET s == scan_loop(tokens, ParseErr, {})
    IN IF s.names = {}
       THEN IF s.max_visited = ParseErr THEN ScanSome(FALSE, 0)
            ELSE IF s.max_visited + 1 > USIZE_MAX THEN ScanNone
            ELSE ScanSome(FALSE, s.max_visited + 1)
       ELSE IF s.max_visited # ParseErr THEN ScanNone
       ELSE ScanSome(TRUE, Cardinality(s.names))


\* ------------------------------------------------------ the token alphabet
Chars_SELECT == <<"S", "E", "L", "E", "C", "T">>
Chars_LIMIT == <<"L", "I", "M", "I", "T">>
Chars_SET == <<"S", "E", "T">>
Chars_GLOBAL == <<"G", "L", "O", "B", "A", "L">>
Chars_CONFIGURE == <<"C", "O", "N", "F", "I", "G", "U", "R", "E">>
Chars_CREATE == <<"C", "R", "E", "A", "T", "E">>
Chars_ALTER == <<"A", "L", "T", "E", "R">>
Chars_DROP == <<"D", "R", "O", "P">>
Chars_START == <<"S", "T", "A", "R", "T">>
Chars_ANALYZE == <<"A", "N", "A", "L", "Y", "Z", "E">>
Chars_MinInt64 == <<"9", "2", "2", "3", "3", "7", "2", "0", "3", "6", "8",
                    "5", "4", "7", "7", "5", "8", "0", "8">>
Chars_std == <<"_", "_", "s", "t", "d", "_", "_">>
Chars_int64 == <<"i", "n", "t", "6", "4">>
Chars_float64 == <<"f", "l", "o", "a", "t", "6", "4">>
Chars_bigint == <<"b", "i", "g", "i", "n", "t">>
Chars_decimal == <<"d", "e", "c", "i", "m", "a", "l">>
Chars_str == <<"s", "t", "r">>
Chars_edb_arg == <<"$", "_", "_", "e", "d", "b", "_", "a", "r", "g", "_">>

to_lowercase(text) == [k \in 1..Len(text) |-> LowerChar(text[k])]

\* tokens as the tokenizer delivers them (the span is set by WithSpans)
KwTok(text) == Token("Keyword", text, NoSpan, NoValue)
IntTok(text) == Token("IntConst", text, NoSpan, ValueOf("Int", text))
ArgTok(name) == Token("Argument", <<"$">> \o name, NoSpan, NoValue)
Punct(kind, text) == Token(kind, text, NoSpan, NoValue)
IdentTok(text) == Token("Ident", text, NoSpan, NoValue)

Tok_Float == Token("FloatConst", <<"1", ".", "5">>, NoSpan,
                   ValueOf("Float", <<"1", ".", "5">>))
Tok_Float2 == Token("FloatConst", <<"2", "e", "3">>, NoSpan,
                    ValueOf("Float", <<"2", "0", "0", "0">>))
Tok_BigInt == Token("BigIntConst", <<"1", "n">>, NoSpan,
                    ValueOf("BigInt", <<"1">>))
Tok_Decimal == Token("DecimalConst", <<"1", ".", "5", "n">>, NoSpan,
                     ValueOf("Decimal", <<"1", ".", "5">>))
Tok_Str == Token("Str", <<"'", "x", "'">>, NoSpan, ValueOf("String", <<"x">>))
Tok_Str2 == Token("Str", <<"'", "y", "z", "'">>, NoSpan,
                  ValueOf("String", <<"y", "z">>))
Tok_Dot == Punct("Dot", <<".">>)
Tok_Semicolon == Punct("Semicolon", <<";">>)
Tok_Add == Punct("Add", <<"+">>)

BypassKeywords ==
    {Chars_CONFIGURE, Chars_CREATE, Chars_ALTER, Chars_DROP, Chars_START,
     Chars_ANALYZE}

\* the tokens every enumerated sequence is drawn from
Alphabet ==
    { KwTok(to_lowercase(Chars_LIMIT)), KwTok(to_lowercase(Chars_SET)),
      KwTok(Chars_GLOBAL), KwTok(to_lowercase(Chars_CREATE)),
      IntTok(<<"1">>), IntTok(<<"2">>), IntTok(Chars_MinInt64),
      Tok_Str, Tok_Dot, Tok_Semicolon,
      ArgTok(<<"0">>), ArgTok(FormatUsize(USIZE_MAX - 1)),
      ArgTok(FormatUsize(USIZE_MAX)), ArgTok(FormatUsize(USIZE_MAX + 1)),
      ArgTok(<<"a">>), ArgTok(Tail(Chars_edb_arg) \o <<"1">>) }

\* longer queries: the examples of the specification and of the tests
Examples ==
    { << KwTok(Chars_SELECT), IntTok(<<"1">>), Tok_Add, IntTok(<<"1">>) >>,
      << KwTok(Chars_SELECT), IntTok(<<"2">>), Tok_Add, IntTok(<<"3">>) >>,
      << KwTok(Chars_SELECT), IdentTok(<<"f", "o", "o">>), KwTok(Chars_LIMIT),
         IntTok(<<"1">>) >>,
      << KwTok(Chars_SELECT), IdentTok(<<"f", "o", "o">>), KwTok(Chars_LIMIT),
         IntTok(<<"2">>) >>,
      << IdentTok(<<"a">>), Tok_Dot, IntTok(<<"1">>) >>,
      << ArgTok(<<"a">>), ArgTok(<<"b">>), ArgTok(<<"b">>), ArgTok(<<"a">>),
         ArgTok(<<"c">>), ArgTok(<<"x", "x">>) >>,
      << ArgTok(<<"0">>), ArgTok(<<"1">>), ArgTok(<<"2">>) >>,
      << ArgTok(<<"2">>), ArgTok(<<"3">>), ArgTok(<<"2">>) >>,
      << Tok_BigInt, Tok_Semicolon, Tok_Decimal, Tok_Semicolon >>,
      << Tok_Float >>,
      << KwTok(Chars_LIMIT), Tok_Float, Tok_Dot, Tok_Float2 >>,
      << KwTok(Chars_SET), KwTok(to_lowercase(Chars_GLOBAL)), IdentTok(<<"g">>),
         Punct("Assign", <<":", "=">>), Tok_Str2 >>,
      << KwTok(Chars_SET), Tok_Float2, KwTok(Chars_GLOBAL) >>,
      << ArgTok(<<"a">>), Tok_Semicolon, IntTok(<<"2">>), KwTok(Chars_SET),
         KwTok(Chars_GLOBAL) >> }
    \cup { << Tok_Str, Tok_Semicolon, IntTok(<<"2">>), KwTok(k) >> :
           k \in BypassKeywords }
    \cup { << KwTok(to_lowercase(k)), IdentTok(<<"t">>), IntTok(<<"2">>) >> :
           k \in BypassKeywords }

\* the span of the i-th token (1-based) of a source text: distinct, in order
WithSpans(toks) == [i \in 1..Len(toks) |-> [toks[i] EXCEPT !.span = SpanAt(i - 1)]]

RECURSIVE SeqsUpTo(_, _)
SeqsUpTo(S, n) ==
    IF n = 0 THEN {<<>>}
    ELSE LET shorter == SeqsUpTo(S, n - 1)
         IN shorter \cup {Append(s, x) : s \in {t \in shorter : Len(t) = n - 1},
                                         x \in S}

Inputs == {WithSpans(s) : s \in SeqsUpTo(Alphabet, MaxLen) \cup Examples}


\* ------------------------------------------------------------ token source
\* Tokenizer::new(text).validated_values(): the stream delivers `tokens` and
\* then either ends or reports a failure (message, span)
NoLexError == [failed |-> FALSE, message |-> "", span |-> NoSpan]
LexError(message, span) == [failed |-> TRUE, message |-> message, span |-> span]

\* token_stream.current_pos(): the position after the last consumed token
current_pos(toks) == IF toks = <<>> THEN 0 ELSE toks[Len(toks)].span.end

\* the failure the stream may report after delivering toks
LexErrors(toks) ==
    IF Len(toks) <= MaxErrLen
    THEN {LexError("unexpected character", SpanAt(current_pos(toks) + 1))}
    ELSE {}

\* ------------------------------------------------------------- result types
NoneUsize == [some |-> FALSE, v |-> 0]
SomeUsize(n) == [some |-> TRUE, v |-> n]

Variable(value) == [value |-> value]

Entry(processed_source, toks, vars, end_pos, named, first_arg) ==
    [processed_source |-> processed_source,
     hash |-> hash(processed_source),
     tokens |-> toks,
     variables |-> vars,
     end_pos |-> end_pos,
     named_args |-> named,
     first_arg |-> first_arg]

NoEntry == Entry(<<>>, <<>>, <<>>, 0, FALSE, NoneUsize)
NoError == [variant |-> "", message |-> "", pos |-> 0]
Error_Tokenizer(message, pos) ==
    [variant |-> "Tokenizer", message |-> message, pos |-> pos]

\* Result<Entry, Error>; Pending before normalize has returned, Panic when the
\* call unwinds instead of returning
Pending == [kind |-> "Pending", entry |-> NoEntry, error |-> NoError]
Ok(entry) == [kind |-> "Ok", entry |-> entry, error |-> NoError]
Err(error) == [kind |-> "Err", entry |-> NoEntry, error |-> error]
Panic == [kind |-> "Panic", entry |-> NoEntry, error |-> NoError]

\* the Entry of the three pass-through returns: the original tokens, verbatim
PassThrough(toks) ==
    Entry(serialize_tokens(toks), toks, <<>>, current_pos(toks), FALSE,
          NoneUsize)

\* ------------------------------------------------------ normalize: the loop
\* the closure next_var: the parameter text for the counter, and the counter
\* after `counter += 1` (wrapping: the build without overflow checks)
next_var(named, counter) ==
    [text |-> IF named THEN Chars_edb_arg \o FormatUsize(counter)
              ELSE <<"$">> \o FormatUsize(counter),
     counter |-> (counter + 1) % (2 ^ USIZE_BITS)]

LastIsDot(rewritten) ==
    rewritten # <<>> /\ rewritten[Len(rewritten)].kind = "Dot"
LastIsLimit(rewritten) ==
    /\ rewritten # <<>>
    /\ rewritten[Len(rewritten)].kind = "Keyword"
    /\ eq_ignore_ascii_case(rewritten[Len(rewritten)].text, Chars_LIMIT)

\* the first arm's guard keeping every integer after LIMIT
IntConstGuard_any_limit(tok, rewritten) ==
    /\ ~LastIsDot(rewritten)
    /\ ~LastIsLimit(rewritten)
    /\ tok.text # Chars_MinInt64

\* the guard of the first arm (Kind::IntConst if ...)
IntConstGuard(tok, rewritten) ==
    /\ ~LastIsDot(rewritten)
    /\ (tok.text # <<"1">> \/ ~LastIsLimit(rewritten))
    /\ tok.text # Chars_MinInt64

\* the guard of the bypass arm (Kind::Keyword if ...)
BypassGuard(tok, was_set) ==
    \/ to_uppercase(tok.text) \in BypassKeywords
    \/ (was_set /\ to_uppercase(tok.text) = Chars_GLOBAL)

\* the arm of `match tok.kind` that is taken, the arms tried in source order
MatchArm(tok, rewritten, was_set) ==
    IF tok.kind = "IntConst" /\ IntConstGuard(tok, rewritten) THEN "IntConst"
    ELSE IF tok.kind = "FloatConst" THEN "FloatConst"
    ELSE IF tok.kind = "BigIntConst" THEN "BigIntConst"
    ELSE IF tok.kind = "DecimalConst" THEN "DecimalConst"
    ELSE IF tok.kind = "Str" THEN "Str"
    ELSE IF tok.kind = "Keyword" /\ BypassGuard(tok, was_set) THEN "Bypass"
    ELSE IF tok.kind = "Semicolon" THEN "Semicolon"
    ELSE IF tok.kind = "Keyword" /\ to_uppercase(tok.text) = Chars_SET
         THEN "Set"
    ELSE "Other"

LiteralArms == {"IntConst", "FloatConst", "BigIntConst", "DecimalConst", "Str"}

TypeOfArm(arm) ==
    CASE arm = "IntConst" -> Chars_int64
      [] arm = "FloatConst" -> Chars_float64
      [] arm = "BigIntConst" -> Chars_bigint
      [] arm = "DecimalConst" -> Chars_decimal
      [] arm = "Str" -> Chars_str

\* A frame holds normalize's locals:
\*   pc, named_args, var_idx, rewritten_tokens, all_variables, variables,
\*   counter, last_was_set, idx, result

\* a literal arm without its `continue`: the literal falls through to the
\* push at the end of the match
ExtractArm_no_continue(f, tok, typ) ==
    LET nv == next_var(f.named_args, f.counter)
    IN [f EXCEPT !.rewritten_tokens =
                     Append(push_var(@, Chars_std, typ, nv.text, tok.span), tok),
                 !.variables = Append(@, Variable(tok.value)),
                 !.counter = nv.counter,
                 !.last_was_set = FALSE,
                 !.idx = @ + 1]

\* a literal arm: push_var, variables.push, continue (last_was_set is kept)
ExtractArm(f, tok, typ) ==
    LET nv == next_var(f.named_args, f.counter)
    IN [f EXCEPT !.rewritten_tokens =
                     push_var(@, Chars_std, typ, nv.text, tok.span),
                 !.variables = Append(@, Variable(tok.value)),
                 !.counter = nv.counter,
                 !.idx = @ + 1]

\* the bypass arm serializing the tokens rewritten so far
BypassArm_rewritten(f, toks) ==
    [f EXCEPT !.pc = "ret_bypass",
              !.result = Ok(PassThrough(f.rewritten_tokens))]

\* the bypass arm: return the original tokens
BypassArm(f, toks) ==
    [f EXCEPT !.pc = "ret_bypass", !.result = Ok(PassThrough(toks))]

\* Kind::Semicolon without the test for the last token
SemicolonArm_always_flush(f, tok, toks) ==
    [f EXCEPT !.all_variables = Append(@, f.variables),
              !.variables = <<>>,
              !.rewritten_tokens = Append(@, tok),
              !.last_was_set = FALSE,
              !.idx = @ + 1]

\* Kind::Semicolon
SemicolonArm(f, tok, toks) ==
    LET flush == f.idx + 1 < Len(toks)
    IN [f EXCEPT !.all_variables = IF flush THEN Append(@, f.variables) ELSE @,
                 !.variables = IF flush THEN <<>> ELSE @,
                 !.rewritten_tokens = Append(@, tok),
                 !.last_was_set = FALSE,
                 !.idx = @ + 1]

\* Kind::Keyword if SET
SetArm(f, tok) ==
    [f EXCEPT !.rewritten_tokens = Append(@, tok),
              !.last_was_set = TRUE,
              !.idx = @ + 1]

\* _ => rewritten_tokens.push(tok.clone())
OtherArm(f, tok) ==
    [f EXCEPT !.rewritten_tokens = Append(@, tok),
              !.last_was_set = FALSE,
              !.idx = @ + 1]

\* after the loop: the last statement's list, the serialization, the Entry
FinalFlush(f, toks) ==
    LET all == Append(f.all_variables, f.variables)
    IN [f EXCEPT !.all_variables = all,
                 !.variables = <<>>,
                 !.pc = "ret",
                 !.result =
                     Ok(Entry(serialize_tokens(f.rewritten_tokens),
                              f.rewritten_tokens, all, current_pos(toks),
                              f.named_args,
                              IF f.counter <= f.var_idx THEN NoneUsize
                              ELSE SomeUsize(f.var_idx)))]

\* the frame before normalize has run
Frame0 ==
    [pc |-> "start", named_args |-> FALSE, var_idx |-> 0,
     rewritten_tokens |-> <<>>, all_variables |-> <<>>, variables |-> <<>>,
     counter |-> 0, last_was_set |-> FALSE, idx |-> 0, result |-> Pending]

\* collect failed: map_err(|e| Error::Tokenizer(e.message, e.span.start))?
TokenizerFailed(f, err) ==
    [f EXCEPT !.pc = "ret_err",
              !.result = Err(Error_Tokenizer(err.message, err.span.start))]

\* scan_vars returned None, answered with one empty statement list
ScanFailed_one_statement(f, toks) ==
    [f EXCEPT !.pc = "ret_mixed",
              !.result = Ok([PassThrough(toks) EXCEPT !.variables = << <<>> >>])]

\* scan_vars returned None
ScanFailed(f, toks) ==
    [f EXCEPT !.pc = "ret_mixed", !.result = Ok(PassThrough(toks))]

\* scan_vars returned Some(pair): the locals before the loop
EnterLoop(f, scan) ==
    [f EXCEPT !.pc = "loop", !.named_args = scan.named_args,
              !.var_idx = scan.var_idx, !.counter = scan.var_idx]

\* one iteration of the loop, or what follows it
LoopStep(f, toks) ==
    IF f.idx >= Len(toks) THEN FinalFlush(f, toks)
    ELSE LET tok == toks[f.idx + 1]
             arm == MatchArm(tok, f.rewritten_tokens, f.last_was_set)
         IN CASE arm \in LiteralArms -> ExtractArm(f, tok, TypeOfArm(arm))
              [] arm = "Bypass" -> BypassArm(f, toks)
              [] arm = "Semicolon" -> SemicolonArm(f, tok, toks)
              [] arm = "Set" -> SetArm(f, tok)
              [] arm = "Other" -> OtherArm(f, tok)

RECURSIVE RunLoop(_, _)
RunLoop(f, toks) ==
    IF f.pc # "loop" THEN f ELSE RunLoop(LoopStep(f, toks), toks)

\* normalize as a function of what the token source delivers (on the build
\* without overflow checks)
normalize(toks, err) ==
    LET scan == scan_vars(toks)
        f == IF err.failed THEN TokenizerFailed(Frame0, err)
             ELSE IF ~scan.some THEN ScanFailed(Frame0, toks)
             ELSE EnterLoop(Frame0, scan)
    IN RunLoop(f, toks).result

\* -------------------------------------------------------- the state machine
VARIABLES tokens, lex_error, pc, named_args, var_idx, rewritten_tokens,
          all_variables, variables, counter, last_was_set, idx, result

vars == <<tokens, lex_error, pc, named_args, var_idx, rewritten_tokens,
          all_variables, variables, counter, last_was_set, idx, result>>

Frame ==
    [pc |-> pc, named_args |-> named_args, var_idx |-> var_idx,
     rewritten_tokens |-> rewritten_tokens, all_variables |-> all_variables,
     variables |-> variables, counter |-> counter,
     last_was_set |-> last_was_set, idx |-> idx, result |-> result]

Assign(f) ==
    /\ pc' = f.pc
    /\ named_args' = f.named_args
    /\ var_idx' = f.var_idx
    /\ rewritten_tokens' = f.rewritten_tokens
    /\ all_variables' = f.all_variables
    /\ variables' = f.variables
    /\ counter' = f.counter
    /\ last_was_set' = f.last_was_set
    /\ idx' = f.idx
    /\ result' = f.result
    /\ UNCHANGED <<tokens, lex_error>>

Init ==
    /\ tokens \in Inputs
    /\ lex_error \in {NoLexError} \cup LexErrors(tokens)
    /\ pc = Frame0.pc
    /\ named_args = Frame0.named_args
    /\ var_idx = Frame0.var_idx
    /\ rewritten_tokens = Frame0.rewritten_tokens
    /\ all_variables = Frame0.all_variables
    /\ variables = Frame0.variables
    /\ counter = Frame0.counter
    /\ last_was_set = Frame0.last_was_set
    /\ idx = Frame0.idx
    /\ result = Frame0.result

\* the token of this iteration and the arm it takes
InLoop == pc = "loop" /\ idx < Len(tokens)
CurTok == tokens[idx + 1]
CurArm == MatchArm(CurTok, rewritten_tokens, last_was_set)

CollectErr ==
    /\ pc = "start"
    /\ lex_error.failed
    /\ Assign(TokenizerFailed(Frame, lex_error))

ScanNoneReturn ==
    /\ pc = "start"
    /\ ~lex_error.failed
    /\ ~scan_vars(tokens).some
    /\ Assign(ScanFailed(Frame, tokens))

ScanSomeEnter ==
    /\ pc = "start"
    /\ ~lex_error.failed
    /\ scan_vars(tokens).some
    /\ Assign(EnterLoop(Frame, scan_vars(tokens)))

ExtractIntConst ==
    /\ InLoop /\ CurArm = "IntConst"
    /\ Assign(ExtractArm(Frame, CurTok, Chars_int64))

ExtractFloatConst ==
    /\ InLoop /\ CurArm = "FloatConst"
    /\ Assign(ExtractArm(Frame, CurTok, Chars_float64))

ExtractBigIntConst ==
    /\ InLoop /\ CurArm = "BigIntConst"
    /\ Assign(ExtractArm(Frame, CurTok, Chars_bigint))

ExtractDecimalConst ==
    /\ InLoop /\ CurArm = "DecimalConst"
    /\ Assign(ExtractArm(Frame, CurTok, Chars_decimal))

ExtractStr ==
    /\ InLoop /\ CurArm = "Str"
    /\ Assign(ExtractArm(Frame, CurTok, Chars_str))

\* `counter += 1` at counter = usize::MAX on a build with overflow checks
CounterOverflowPanic ==
    /\ InLoop /\ CurArm \in LiteralArms
    /\ counter = USIZE_MAX
    /\ Assign([Frame EXCEPT !.pc = "panic", !.result = Panic])

BypassReturn ==
    /\ InLoop /\ CurArm = "Bypass"
    /\ Assign(BypassArm(Frame, tokens))

Semicolon ==
    /\ InLoop /\ CurArm = "Semicolon"
    /\ Assign(SemicolonArm(Frame, CurTok, tokens))

SetKeyword ==
    /\ InLoop /\ CurArm = "Set"
    /\ Assign(SetArm(Frame, CurTok))

OtherToken ==
    /\ InLoop /\ CurArm = "Other"
    /\ Assign(OtherArm(Frame, CurTok))

Return ==
    /\ pc = "loop" /\ idx >= Len(tokens)
    /\ Assign(FinalFlush(Frame, tokens))

Next ==
    \/ CollectErr
    \/ ScanNoneReturn
    \/ ScanSomeEnter
    \/ ExtractIntConst
    \/ ExtractFloatConst
    \/ ExtractBigIntConst
    \/ ExtractDecimalConst
    \/ ExtractStr
    \/ CounterOverflowPanic
    \/ BypassReturn
    \/ Semicolon
    \/ SetKeyword
    \/ OtherToken
    \/ Return

Spec == Init /\ [][Next]_vars

Returned == pc \in {"ret", "ret_bypass", "ret_mixed", "ret_err"}


\* ====================================================================
\* Properties
\* ====================================================================

\* ------------------------------------------------- what the input contains
ArgumentTexts == {tokens[i].text : i \in {j \in 1..Len(tokens) :
                                           tokens[j].kind = "Argument"}}

\* the name after "$" is a non-empty string of digits
IsIntegerName(text) ==
    Len(text) > 1 /\ \A k \in 2..Len(text) : IsDigit(text[k])
\* the index an integer name denotes: the n whose decimal text is the name
IndexOfName(text) ==
    CHOOSE n \in 0..(2 * USIZE_MAX + 1) : text = <<"$">> \o FormatUsize(n)
\* the name is the decimal text of an index a usize can hold
IsPositionalName(text) ==
    \E n \in 0..USIZE_MAX : text = <<"$">> \o FormatUsize(n)

SetMax(S) == CHOOSE m \in S : \A x \in S : x <= m

\* what scan_vars returned, once normalize is past its call
Scanned == pc \notin {"start", "ret_err"}
ScanResult ==
    IF pc = "ret_mixed" THEN ScanNone ELSE ScanSome(named_args, var_idx)

\* ------------------------------------------------------------------ C1
\* C1 as stated: with no Argument token scan_vars returns (false, 0); with
\* only integer-named Argument tokens (false, max index + 1); with only
\* non-integer-named ones (true, number of distinct names); with both, None.
C1_AsStated ==
    Scanned =>
        LET ints == {t \in ArgumentTexts : IsIntegerName(t)}
            words == ArgumentTexts \ ints
        IN ScanResult =
             IF ArgumentTexts = {} THEN ScanSome(FALSE, 0)
             ELSE IF words = {}
                  THEN ScanSome(FALSE, SetMax({IndexOfName(t) : t \in ints}) + 1)
             ELSE IF ints = {} THEN ScanSome(TRUE, Cardinality(words))
             ELSE ScanNone

\* C1 (amended): an Argument token is positional when its name is the decimal
\* text of an index a usize holds, and named otherwise (also when its digits
\* exceed the usize range).  No Argument token: (false, 0).  Only positional:
\* (false, max + 1), or None when max is usize::MAX.  Only named:
\* (true, number of distinct names).  Both: None.  Other tokens play no part.
C1_ScanVars ==
    Scanned =>
        LET pos == {t \in ArgumentTexts : IsPositionalName(t)}
            named == ArgumentTexts \ pos
            max == SetMax({IndexOfName(t) : t \in pos})
        IN ScanResult =
             IF ArgumentTexts = {} THEN ScanSome(FALSE, 0)
             ELSE IF named = {}
                  THEN IF max = USIZE_MAX THEN ScanNone
                       ELSE ScanSome(FALSE, max + 1)
             ELSE IF pos = {} THEN ScanSome(TRUE, Cardinality(named))
             ELSE ScanNone

\* a repeated positional index below another one: $2 $3 $2 scanned as (false, 4)
C1_Witness ==
    /\ Scanned
    /\ Len(tokens) = 3
    /\ \A i \in 1..3 : tokens[i].kind = "Argument"
    /\ tokens[1].text = tokens[3].text
    /\ tokens[2].text # tokens[1].text
    /\ ScanResult = ScanSome(FALSE, IndexOfName(tokens[2].text) + 1)
    /\ IndexOfName(tokens[2].text) > IndexOfName(tokens[1].text)

\* ------------------------------------------------------------------ C2
Query_Select1Plus1 ==
    WithSpans(<< KwTok(Chars_SELECT), IntTok(<<"1">>), Tok_Add,
                 IntTok(<<"1">>) >>)

Text_C2_Stated ==
    <<"S", "E", "L", "E", "C", "T", " ", "(", "<", "_", "_", "s", "t", "d",
    "_", "_", ":", ":", "i", "n", "t", "6", "4", ">", "$", "0", ")", "+",
    "(", "<", "_", "_", "s", "t", "d", "_", "_", ":", ":", "i", "n", "t",
    "6", "4", ">", "$", "1", ")">>

Text_C2_Actual ==
    <<"S", "E", "L", "E", "C", "T", "(", "<", "_", "_", "s", "t", "d", "_",
    "_", ":", ":", "i", "n", "t", "6", "4", ">", "$", "0", ")", "+", "(",
    "<", "_", "_", "s", "t", "d", "_", "_", ":", ":", "i", "n", "t", "6",
    "4", ">", "$", "1", ")">>

C2_Rest ==
    /\ result.kind = "Ok"
    /\ result.entry.variables =
           << << Variable(ValueOf("Int", <<"1">>)),
                 Variable(ValueOf("Int", <<"1">>)) >> >>
    /\ result.entry.named_args = FALSE
    /\ result.entry.first_arg = SomeUsize(0)

\* C2 as stated: normalize of SELECT 1+1 gives the processed_source
\* "SELECT (<__std__::int64>$0)+(<__std__::int64>$1)", one statement with the
\* values 1 and 1, named_args = false and first_arg = Some(0).
C2_AsStated ==
    (tokens = Query_Select1Plus1 /\ ~lex_error.failed
        /\ pc \notin {"start", "loop"})
    => (C2_Rest /\ result.entry.processed_source = Text_C2_Stated)

\* C2 (amended): normalize of SELECT 1+1 gives the processed_source
\* "SELECT(<__std__::int64>$0)+(<__std__::int64>$1)" (no space between SELECT
\* and the parenthesis), one statement with the values 1 and 1,
\* named_args = false and first_arg = Some(0).
C2_Select1Plus1 ==
    (tokens = Query_Select1Plus1 /\ ~lex_error.failed
        /\ pc \notin {"start", "loop"})
    => (C2_Rest /\ result.entry.processed_source = Text_C2_Actual)

C2_Witness ==
    tokens = Query_Select1Plus1 /\ pc = "ret" /\ result.kind = "Ok"


\* ------------------------------------------------------------------ C3
IsKeyword(tok, word) ==
    tok.kind = "Keyword" /\ eq_ignore_ascii_case(tok.text, word)
HasBypassKeyword ==
    \E i \in 1..Len(tokens) : \E k \in BypassKeywords : IsKeyword(tokens[i], k)

LiteralKinds ==
    {"IntConst", "FloatConst", "BigIntConst", "DecimalConst", "Str"}

\* the result is Ok with the original tokens, their serialization, its digest,
\* no variables, named_args = false and first_arg = None
IsPassThroughResult ==
    /\ result.kind = "Ok"
    /\ result.entry.tokens = tokens
    /\ result.entry.processed_source = serialize_tokens(tokens)
    /\ result.entry.hash = hash(serialize_tokens(tokens))
    /\ Len(result.entry.variables) = 0
    /\ result.entry.named_args = FALSE
    /\ result.entry.first_arg = NoneUsize

\* C3: when the tokens (of a non-mixed argument style) contain a Keyword that
\* is, ignoring case, one of CONFIGURE, CREATE, ALTER, DROP, START, ANALYZE, at
\* any position, what normalize returns is Ok with the original tokens, their
\* serialization and its digest, no variables, named_args = false and
\* first_arg = None.
C3_BypassKeyword ==
    (Returned /\ ~lex_error.failed /\ pc # "ret_mixed" /\ HasBypassKeyword)
    => IsPassThroughResult

\* a bypass keyword met after a literal was extracted, in a query with a named
\* parameter
C3_Witness ==
    /\ pc = "ret_bypass"
    /\ HasBypassKeyword
    /\ named_args
    /\ counter > var_idx
    /\ Len(rewritten_tokens) > idx
    /\ result.entry.named_args = FALSE

\* ------------------------------------------------------------------ C4
HasAdjacentSetGlobal ==
    \E i \in 1..(Len(tokens) - 1) :
        IsKeyword(tokens[i], Chars_SET) /\ IsKeyword(tokens[i + 1], Chars_GLOBAL)

\* C4: in a query without one of the six bypass keywords, the pass returns by
\* the bypass arm if and only if a Keyword GLOBAL directly follows a Keyword
\* SET in the original token sequence.
C4_AsStated ==
    (pc \in {"ret", "ret_bypass"} /\ ~HasBypassKeyword)
    => (pc = "ret_bypass" <=> HasAdjacentSetGlobal)

\* ------------------------------------------------------------------ C5
HasPositionalArg == \E t \in ArgumentTexts : IsPositionalName(t)
HasNamedArg == \E t \in ArgumentTexts : ~IsPositionalName(t)

\* C5: when the tokens hold at least one positional and at least one named
\* parameter reference, normalize returns Ok with the original tokens, their
\* serialization and its digest, no variables, named_args = false and
\* first_arg = None, and it never enters the rewriting loop.
C5_MixedPassThrough ==
    (pc # "start" /\ ~lex_error.failed /\ HasPositionalArg /\ HasNamedArg)
    => (pc = "ret_mixed" /\ IsPassThroughResult)

\* a mixed query that holds a literal and no bypass keyword
C5_Witness ==
    /\ pc = "ret_mixed"
    /\ HasPositionalArg /\ HasNamedArg
    /\ ~HasBypassKeyword
    /\ \E i \in 1..Len(tokens) : tokens[i].kind \in LiteralKinds
    /\ result.kind = "Ok"

\* ------------------------------------------------------------------ C6
IsSemicolon(tok) == tok.kind = "Semicolon"
\* the Semicolon tokens that are not the last token of the input
InnerSemicolons ==
    {i \in 1..(Len(tokens) - 1) : IsSemicolon(tokens[i])}

\* C6: a non-bypassed result has one variables list per Semicolon that is not
\* the last token, plus one, and keeps every Semicolon token in its output; a
\* bypassed result has no variables list.
C6_StatementCount ==
    /\ pc = "ret" =>
         /\ Len(result.entry.variables) = Cardinality(InnerSemicolons) + 1
         /\ SelectSeq(result.entry.tokens, IsSemicolon)
                = SelectSeq(tokens, IsSemicolon)
    /\ pc \in {"ret_bypass", "ret_mixed"} => Len(result.entry.variables) = 0

\* a leading and a trailing semicolon around one extracted literal
C6_Witness ==
    /\ pc = "ret"
    /\ Len(tokens) = 3
    /\ IsSemicolon(tokens[1]) /\ IsSemicolon(tokens[3])
    /\ tokens[2].kind \in LiteralKinds
    /\ Len(result.entry.variables) = 2
    /\ result.entry.variables[1] = <<>>
    /\ Len(result.entry.variables[2]) = 1

\* ------------------------------------------------------------------ C7
\* the claim's three exceptions, read off the output written so far
C7_Exception(tok, out) ==
    \/ (out # <<>> /\ out[Len(out)].kind = "Dot")
    \/ (tok.text = <<"1">> /\ out # <<>> /\ IsKeyword(out[Len(out)], Chars_LIMIT))
    \/ tok.text = Chars_MinInt64

\* C7: in a pass that goes on, an IntConst token is kept verbatim (no variable
\* recorded, counter not advanced) exactly when the output so far ends in a
\* Dot, or its text is "1" and the output so far ends in a Keyword LIMIT, or
\* its text is "9223372036854775808"; every other IntConst and every
\* FloatConst, BigIntConst, DecimalConst and Str token is replaced by eight
\* tokens, with one variable recorded and the counter advanced.
C7_ExtractionRule ==
    [][ (InLoop /\ CurTok.kind \in LiteralKinds /\ pc' = "loop") =>
          IF CurTok.kind = "IntConst" /\ C7_Exception(CurTok, rewritten_tokens)
          THEN /\ rewritten_tokens' = Append(rewritten_tokens, CurTok)
               /\ variables' = variables
               /\ counter' = counter
          ELSE /\ Len(rewritten_tokens') = Len(rewritten_tokens) + 8
               /\ \A j \in 1..Len(rewritten_tokens') :
                      rewritten_tokens'[j] # CurTok
               /\ variables' = Append(variables, Variable(CurTok.value))
               /\ counter' # counter
      ]_vars

\* after LIMIT, a 1 that is kept and then a 2 that is extracted
C7_Witness ==
    /\ pc = "ret"
    /\ Len(tokens) = 3
    /\ IsKeyword(tokens[1], Chars_LIMIT)
    /\ tokens[2].kind = "IntConst" /\ tokens[2].text = <<"1">>
    /\ tokens[3].kind = "IntConst" /\ tokens[3].text = <<"2">>
    /\ result.entry.tokens[2] = tokens[2]
    /\ Len(result.entry.tokens) = 10
    /\ result.entry.variables = << <<Variable(tokens[3].value)>> >>

\* ------------------------------------------------------------------ C8
\* the literal tokens a position may hold instead of the one it holds
LiteralTokens ==
    { IntTok(<<"1">>), IntTok(<<"2">>), IntTok(<<"3">>), IntTok(Chars_MinInt64),
      Tok_Float, Tok_Float2, Tok_Str, Tok_Str2, Tok_BigInt, Tok_Decimal }

VariantsAt(tok) ==
    IF tok.kind \in LiteralKinds
    THEN {[l EXCEPT !.span = tok.span] : l \in {x \in LiteralTokens :
                                                 x.kind = tok.kind}}
    ELSE {tok}

\* the token sequences that differ from toks only in the text and value of
\* literal tokens
RECURSIVE Siblings(_)
Siblings(toks) ==
    IF toks = <<>> THEN {<<>>}
    ELSE {<<h>> \o t : h \in VariantsAt(Head(toks)), t \in Siblings(Tail(toks))}

\* the literal token tok was extracted: the result holds a parameter
\* reference synthesized at its span
ExtractedIn(res, tok) ==
    /\ res.kind = "Ok"
    /\ \E j \in 1..Len(res.entry.tokens) :
           /\ res.entry.tokens[j].kind = "Argument"
           /\ res.entry.tokens[j].span = tok.span

KindsAndTexts(toks) ==
    [j \in 1..Len(toks) |-> [kind |-> toks[j].kind, text |-> toks[j].text]]
Shape(vs) == [j \in 1..Len(vs) |-> Len(vs[j])]

SameStructure(a, b) ==
    /\ a.kind = b.kind
    /\ a.entry.processed_source = b.entry.processed_source
    /\ a.entry.hash = b.entry.hash
    /\ KindsAndTexts(a.entry.tokens) = KindsAndTexts(b.entry.tokens)
    /\ a.entry.named_args = b.entry.named_args
    /\ a.entry.first_arg = b.entry.first_arg
    /\ Shape(a.entry.variables) = Shape(b.entry.variables)

\* C8: a query and any query that differs from it only in the text and value
\* of literal tokens extracted in both get the same processed_source, hash,
\* output token kinds and texts, named_args, first_arg and variables shape.
C8_LiteralsDoNotShowInStructure ==
    Returned =>
        \A t \in Siblings(tokens) \ {tokens} :
            LET other == normalize(t, lex_error)
            IN ( /\ \A i \in 1..Len(tokens) :
                        t[i] # tokens[i] => ExtractedIn(result, tokens[i])
                 /\ \A i \in 1..Len(tokens) :
                        t[i] # tokens[i] => ExtractedIn(other, t[i]) )
               => SameStructure(result, other)

Query_Select2Plus3 ==
    WithSpans(<< KwTok(Chars_SELECT), IntTok(<<"2">>), Tok_Add,
                 IntTok(<<"3">>) >>)

\* SELECT 1+1 has returned, and SELECT 2+3 is one of its siblings with other
\* values and the same text
C8_Witness ==
    /\ pc = "ret"
    /\ tokens = Query_Select1Plus1
    /\ Query_Select2Plus3 \in Siblings(tokens)
    /\ LET other == normalize(Query_Select2Plus3, lex_error)
       IN /\ other.entry.variables # result.entry.variables
          /\ other.entry.processed_source = result.entry.processed_source
          /\ ExtractedIn(other, Query_Select2Plus3[2])
          /\ ExtractedIn(result, tokens[2])

\* ------------------------------------------------------------------ C9
\* C9: normalize ends with Err exactly when the token source reported a
\* failure, the error then being Error::Tokenizer with the source's message
\* and the start of the failing span; for every token sequence delivered
\* without failure it ends with Ok; Error::Assertion is never returned.
C9_AsStated ==
    pc \notin {"start", "loop"} =>
        /\ result.kind = "Err" <=> lex_error.failed
        /\ lex_error.failed =>
               /\ result.error =
                      Error_Tokenizer(lex_error.message, lex_error.span.start)
               /\ result.entry = NoEntry
        /\ ~lex_error.failed => result.kind = "Ok"
        /\ result.error.variant # "Assertion"

\* ------------------------------------------------------------------ C10
\* some literal was extracted: the variables lists are not all empty
SomeLiteralExtracted ==
    \E j \in 1..Len(result.entry.variables) : result.entry.variables[j] # <<>>

\* C10: in every Ok result first_arg is Some(s), s being the start index
\* scan_vars returned, if and only if at least one literal was extracted, and
\* None otherwise and on every bypass path.
C10_AsStated ==
    (Returned /\ result.kind = "Ok") =>
        /\ SomeLiteralExtracted => result.entry.first_arg = SomeUsize(var_idx)
        /\ ~SomeLiteralExtracted => result.entry.first_arg = NoneUsize
        /\ pc \in {"ret_bypass", "ret_mixed"} =>
               result.entry.first_arg = NoneUsize


\* ------------------------------------------------------------------ C11
\* a space stands between the token `earlier` and the token `later`
C11_SpaceBetween(earlier, later) ==
    /\ earlier.kind \in WordKinds
    /\ later.kind \in WordKinds
    /\ later.kind # "Argument"

\* the texts of toks in order, one space where C11_SpaceBetween says so
RECURSIVE C11_Joined(_, _)
C11_Joined(toks, n) ==
    IF n = 0 THEN <<>>
    ELSE C11_Joined(toks, n - 1)
         \o (IF n > 1 /\ C11_SpaceBetween(toks[n - 1], toks[n])
             THEN <<" ">> ELSE <<>>)
         \o toks[n].text

RECURSIVE C11_TextLength(_, _)
C11_TextLength(toks, n) ==
    IF n = 0 THEN 0 ELSE C11_TextLength(toks, n - 1) + Len(toks[n].text)

C11_Spaces(toks) ==
    Cardinality({n \in 2..Len(toks) : C11_SpaceBetween(toks[n - 1], toks[n])})

\* C11: the processed_source of every Ok result (the serialization of the
\* result's tokens, original or rewritten) is the token texts in order with
\* exactly one space between two consecutive tokens when both are
\* non-operator-class and the later one is no Argument, and nothing else: its
\* length is the length of the texts plus the number of such pairs, and it
\* starts with the first text and ends with the last.
C11_SerializeTokens ==
    (Returned /\ result.kind = "Ok") =>
        LET toks == result.entry.tokens
            text == result.entry.processed_source
        IN /\ text = C11_Joined(toks, Len(toks))
           /\ Len(text) = C11_TextLength(toks, Len(toks)) + C11_Spaces(toks)
           /\ toks # <<>> =>
                  /\ SubSeq(text, 1, Len(toks[1].text)) = toks[1].text
                  /\ SubSeq(text, Len(text) - Len(toks[Len(toks)].text) + 1,
                            Len(text)) = toks[Len(toks)].text

\* keyword, parameter, keyword: no space before the parameter, one after it
C11_Witness ==
    /\ pc = "ret"
    /\ Len(tokens) = 3
    /\ tokens[1].kind = "Keyword"
    /\ tokens[2].kind = "Argument"
    /\ tokens[3].kind = "Keyword"
    /\ result.entry.processed_source =
           tokens[1].text \o tokens[2].text \o <<" ">> \o tokens[3].text


\* ------------------------------------------------------------------ C12
C12_Kinds ==
    <<"OpenParen", "Less", "Ident", "Namespace", "Ident", "Greater",
      "Argument", "CloseParen">>

\* the type name the claim gives for a literal kind
C12_TypeName(kind) ==
    CASE kind = "IntConst" -> <<"i", "n", "t", "6", "4">>
      [] kind = "FloatConst" -> <<"f", "l", "o", "a", "t", "6", "4">>
      [] kind = "BigIntConst" -> <<"b", "i", "g", "i", "n", "t">>
      [] kind = "DecimalConst" -> <<"d", "e", "c", "i", "m", "a", "l">>
      [] kind = "Str" -> <<"s", "t", "r">>

\* the eight texts, the parameter text being the one found at its place
C12_Texts(lit, param) ==
    << <<"(">>, <<"<">>, <<"_", "_", "s", "t", "d", "_", "_">>, <<":", ":">>,
       C12_TypeName(lit.kind), <<">">>, param, <<")">> >>

\* eight is the replacement of the literal lit
C12_Replaces(eight, lit) ==
    /\ Len(eight) = 8
    /\ \A k \in 1..8 :
           /\ eight[k].kind = C12_Kinds[k]
           /\ eight[k].text = C12_Texts(lit, eight[7].text)[k]
           /\ eight[k].span = lit.span

\* out is toks from position i on, with the literals at the positions of E
\* replaced and every other token verbatim
RECURSIVE C12_Rewrites(_, _, _, _)
C12_Rewrites(toks, out, E, i) ==
    IF i > Len(toks) THEN out = <<>>
    ELSE IF i \in E
         THEN /\ Len(out) >= 8
              /\ C12_Replaces(SubSeq(out, 1, 8), toks[i])
              /\ C12_Rewrites(toks, SubSeq(out, 9, Len(out)), E, i + 1)
    ELSE /\ out # <<>>
         /\ Head(out) = toks[i]
         /\ C12_Rewrites(toks, Tail(out), E, i + 1)

RECURSIVE C12_Count(_)
C12_Count(vs) == IF vs = <<>> THEN 0 ELSE Len(Head(vs)) + C12_Count(Tail(vs))

LiteralPositions == {i \in 1..Len(tokens) : tokens[i].kind \in LiteralKinds}

\* C12: in a non-bypassed result the output tokens are the input tokens with
\* each extracted literal (as many as there are variables) replaced in place
\* by the eight tokens ( < __std__ :: T > P ) carrying the literal's span, T
\* given by the literal's kind, and every other token verbatim and in order;
\* the output is 7 tokens longer per extracted literal.
C12_RewrittenTokens ==
    pc = "ret" =>
        \E E \in SUBSET LiteralPositions :
            /\ Cardinality(E) = C12_Count(result.entry.variables)
            /\ C12_Rewrites(tokens, result.entry.tokens, E, 1)
            /\ Len(result.entry.tokens) = Len(tokens) + 7 * Cardinality(E)

\* a kept literal (after a Dot), an extracted one, and another token
C12_Witness ==
    /\ pc = "ret"
    /\ Len(tokens) = 3
    /\ tokens[1].kind = "Dot"
    /\ tokens[2].kind = "IntConst"
    /\ tokens[3].kind = "Str"
    /\ Len(result.entry.tokens) = 10
    /\ result.entry.tokens[2] = tokens[2]
    /\ C12_Replaces(SubSeq(result.entry.tokens, 3, 10), tokens[3])


\* ------------------------------------------------------------------ C13
\* the input position whose token has the span sp
PositionOfSpan(sp) == CHOOSE i \in 1..Len(tokens) : tokens[i].span = sp

\* an output token that is a synthesized parameter: an Argument standing at the
\* span of an input literal
IsSynthesized(t) ==
    /\ t.kind = "Argument"
    /\ \E i \in LiteralPositions : tokens[i].span = t.span

SynthesizedArgs == SelectSeq(result.entry.tokens, IsSynthesized)

RECURSIVE Flatten(_)
Flatten(vs) == IF vs = <<>> THEN <<>> ELSE Head(vs) \o Flatten(Tail(vs))

\* the statement (1-based) an input position belongs to
StatementOf(i) == 1 + Cardinality({s \in InnerSemicolons : s < i})

\* the variables list (1-based) holding the j-th element of the concatenation
RECURSIVE OwnerOf(_, _, _)
OwnerOf(vs, j, k) ==
    IF j <= Len(Head(vs)) THEN k
    ELSE OwnerOf(Tail(vs), j - Len(Head(vs)), k + 1)

\* the parameter text of number n in the mode of the result
ParamText(named, n) ==
    (IF named THEN <<"$", "_", "_", "e", "d", "b", "_", "a", "r", "g", "_">>
     ELSE <<"$">>) \o FormatUsize(n)

\* C13: in a non-bypassed result with start index s the j-th synthesized
\* parameter (0-based, in order of appearance, across statements) has the text
\* "$" + (s+j), or "$__edb_arg_" + (s+j) in named mode; its literal's value is
\* the j-th element of the concatenated variables lists; there are as many
\* variables as synthesized parameters; and each value lies in the list of the
\* statement its literal stands in.
C13_AsStated ==
    pc = "ret" =>
        LET synth == SynthesizedArgs
            vals == Flatten(result.entry.variables)
        IN /\ Len(synth) = Len(vals)
           /\ \A j \in 1..Len(synth) :
                  LET i == PositionOfSpan(synth[j].span)
                  IN /\ synth[j].text =
                            ParamText(result.entry.named_args, var_idx + j - 1)
                     /\ vals[j] = Variable(tokens[i].value)
                     /\ OwnerOf(result.entry.variables, j, 1) = StatementOf(i)
                     /\ j > 1 => PositionOfSpan(synth[j - 1].span) < i


\* ------------------------------------------------------------------ C14
\* C14: in a non-bypassed result no synthesized parameter has the text of an
\* Argument token of the input; in positional mode every synthesized index is
\* greater than every index already present.
C14_AsStated ==
    pc = "ret" =>
        \A j \in 1..Len(SynthesizedArgs) :
            LET s == SynthesizedArgs[j]
            IN /\ s.text \notin ArgumentTexts
               /\ ~result.entry.named_args =>
                      \A a \in ArgumentTexts :
                          IndexOfName(s.text) > IndexOfName(a)


\* ------------------------------------------------------------------ C15
\* the indices of the references that a usize can hold
PositionalIndices ==
    {IndexOfName(t) : t \in {a \in ArgumentTexts : IsPositionalName(a)}}
\* the references made of digits that a usize cannot hold
OverlongReferences ==
    {a \in ArgumentTexts : IsIntegerName(a) /\ ~IsPositionalName(a)}

\* C15: with usize indices of USIZE_BITS bits, when the highest positional
\* index present is usize::MAX scan_vars returns None (no wrap to 0) and
\* normalize returns the pass-through Entry without entering the loop; when it
\* is a smaller m (and no name is present) the start index is m + 1; and a
\* reference whose digits exceed the usize range is no positional one: alone
\* (or with names) it gives named mode, counted among the distinct names.
C15_CheckedAdd ==
    (Scanned /\ ArgumentTexts # {}) =>
        /\ (PositionalIndices # {} /\ SetMax(PositionalIndices) = USIZE_MAX) =>
               /\ ScanResult = ScanNone
               /\ pc = "ret_mixed"
               /\ IsPassThroughResult
               /\ rewritten_tokens = <<>> /\ counter = 0 /\ idx = 0
        /\ (PositionalIndices # {} /\ SetMax(PositionalIndices) < USIZE_MAX
                /\ ~HasNamedArg) =>
               ScanResult = ScanSome(FALSE, SetMax(PositionalIndices) + 1)
        /\ (OverlongReferences # {} /\ PositionalIndices = {}) =>
               ScanResult = ScanSome(TRUE, Cardinality(ArgumentTexts))
        /\ (OverlongReferences # {} /\ PositionalIndices # {}) =>
               ScanResult = ScanNone

\* the reference $<usize::MAX> next to a literal: passed through, not extracted
C15_Witness ==
    /\ pc = "ret_mixed"
    /\ ArgumentTexts = {<<"$">> \o FormatUsize(USIZE_MAX)}
    /\ \E i \in 1..Len(tokens) : tokens[i].kind = "Str"
    /\ result.entry.tokens = tokens
    /\ result.entry.variables = <<>>

====
